---- MODULE Spec2Model ----
(***************************************************************************)
(* The bounded-concurrency scheduler of e2e-agent-orchestrator             *)
(* (runTestsWithParallelization and its ProgressTracker, orchestrator.ts)  *)
(* together with the exit status computed by the CLI's `run` command.      *)
(*                                                                         *)
(* The coordinator is one async function.  Between two awaits it runs      *)
(* without interruption; the .then/.catch callbacks of the worker promises *)
(* run only while it is suspended in `await Promise.race(...)` (or after   *)
(* it has finished).  The continuation of the await is a later microtask   *)
(* than the callback that settled the race, so further callbacks may run   *)
(* between the race being settled and the coordinator resuming.            *)
(***************************************************************************)
EXTENDS Integers, Sequences, FiniteSets, TLC

\* ------------------------------------------------------------------ bounds

\* Longest list of discovered spec paths.
MaxSpecs == 3
\* Largest concurrency limit (config.maxWorkers) explored.
MaxLimit == 3
\* Largest duration (ms) a resolved worker reports.
MaxDuration == 1
\* Most characters an agent process writes to stdout.
MaxOutput == 3

\* ------------------------------------------------------------ spec paths

\* Directories and base names of the spec files below specsDir.
Dirs == {"a", "b"}
Bases == {"cart", "login"}

\* A spec path <dir>/<base>.spec.ts
Paths == [dir : Dirs, base : Bases]

\* path.basename(spec, '.spec.ts')
Basename(p) == p.base

\* Position of a string in the lexicographic order of the names used here.
\* ("." is specsDir itself: a file there sorts before those in a/ and b/.)
StrRank(s) ==
    CASE s = "." -> 0 [] s = "a" -> 1 [] s = "b" -> 2
      [] s = ".template" -> 0 [] s = "cart" -> 1 [] s = "login" -> 2

\* Lexicographic order of paths, the order of Array.prototype.sort().
PathLess(p, q) == \/ StrRank(p.dir) < StrRank(q.dir)
                  \/ p.dir = q.dir /\ StrRank(p.base) < StrRank(q.base)

IsSorted(s) == \A i, j \in 1..Len(s) : i < j => PathLess(s[i], s[j])

\* What discoverSpecs can return: distinct paths in ascending order.
\* (Strictly ascending implies distinct.)
DiscoveredLists ==
    { s \in UNION { [1..n -> Paths] : n \in 1..MaxSpecs } : IsSorted(s) }

Range(s) == { s[i] : i \in 1..Len(s) }

\* files.sort(): the ascending list of a set of paths.
Sorted(S) == CHOOSE s \in [1..Cardinality(S) -> S] : IsSorted(s)

\* What readdir reports below specsDir.  An entry is named <base>.spec.ts
\* (suffix) or <base>.ts, lies in a subdirectory, and is a regular file, a
\* symbolic link or a directory (taken to be empty).
Entries ==
    [dir : Dirs, base : Bases, suffix : BOOLEAN,
     type : {"file", "symlink", "directory"}]

\* The regular file <dir>/<base>.spec.ts
SpecFile(p) == [dir |-> p.dir, base |-> p.base, suffix |-> TRUE, type |-> "file"]

\* Names are unique within a directory.
UniqueNames(es) ==
    \A e1, e2 \in es :
        (e1.dir = e2.dir /\ e1.base = e2.base /\ e1.suffix = e2.suffix) => e1 = e2

\* The trees below specsDir: the root may be unreadable, and so may each
\* subdirectory (`dirs` are the readable ones).
Trees ==
    { f \in [root : BOOLEAN, dirs : SUBSET Dirs, entries : SUBSET Entries] :
          Cardinality(f.entries) <= MaxSpecs /\ UniqueNames(f.entries) }

\* The trees that hold nothing but spec files.
FileSystems ==
    { f \in [root : BOOLEAN, dirs : SUBSET Dirs,
             entries : { { SpecFile(p) : p \in P } : P \in SUBSET Paths }] :
          Cardinality(f.entries) <= MaxSpecs }

\* A mutant of FilesFound: every regular file is taken, whatever its name.
FilesFoundAnyName(f) ==
    IF f.root
    THEN { [dir |-> e.dir, base |-> e.base] :
             e \in { x \in f.entries : x.dir \in f.dirs /\ x.type = "file" } }
    ELSE {}

\* A mutant of FilesFound: files whose name starts with a dot are skipped.
FilesFoundNotHidden(f) ==
    IF f.root
    THEN { [dir |-> e.dir, base |-> e.base] :
             e \in { x \in f.entries :
                        /\ x.dir \in f.dirs /\ x.type = "file" /\ x.suffix
                        /\ x.base # ".template" } }
    ELSE {}

\* discoverSpecsRecursive: the entries that are regular files named *.spec.ts
\* are pushed; a directory readdir fails on contributes nothing (the error is
\* caught and a warning printed).
FilesFound(f) ==
    IF f.root
    THEN { [dir |-> e.dir, base |-> e.base] :
             e \in { x \in f.entries :
                        x.dir \in f.dirs /\ x.type = "file" /\ x.suffix } }
    ELSE {}

\* A mutant of DiscoverSpecs: the paths in descending order.
DiscoverSpecsDescending(f) ==
    LET s == Sorted(FilesFound(f)) IN [i \in 1..Len(s) |-> s[Len(s) + 1 - i]]

\* discoverSpecs(specsDir, projectRoot)
DiscoverSpecs(f) == Sorted(FilesFound(f))

\* A file system on which discoverSpecs returns `list`.
FsOf(list) ==
    [root |-> TRUE, dirs |-> Dirs, entries |-> { SpecFile(p) : p \in Range(list) }]

\* ------------------------------------------------------ JavaScript values

\* JavaScript values, each with its type.
JsString(s) == [t |-> "string", v |-> s]
JsNumber(s) == [t |-> "number", v |-> s]
JsBoolean(b) == [t |-> "boolean", v |-> IF b THEN "true" ELSE "false"]
Undefined == [t |-> "undefined", v |-> ""]
Null == [t |-> "null", v |-> ""]
\* An array and an object, named by what they hold ("" when empty).
JsArray(s) == [t |-> "array", v |-> s]
JsObject(s) == [t |-> "object", v |-> s]

\* A value used as a condition: undefined, the empty string, 0 and false
\* are falsy.
JsTruthy(x) ==
    ~ \/ x.t = "undefined"
      \/ x.t = "null"
      \/ x.t = "string" /\ x.v = ""
      \/ x.t = "number" /\ x.v = "0"
      \/ x.t = "boolean" /\ x.v = "false"

\* x || d
OrElse(x, d) == IF JsTruthy(x) THEN x ELSE d

\* --------------------------------------------------------- worker outcomes

NoError == "undefined"

\* What runWorker resolves with.
TestResult(name, status, duration, error) ==
    [spec |-> name, status |-> status, duration |-> duration, error |-> error]

ResolvedResults(p) ==
    { TestResult(Basename(p), "passed", d, NoError) : d \in 0..MaxDuration }
    \cup { TestResult(Basename(p), "failed", d, "assertion failed") : d \in 0..MaxDuration }

\* What a worker promise can reject with: an Error with a message, an Error
\* whose message is empty, a thrown string, and null/undefined.
RejectionValues ==
    { [type |-> "Error", payload |-> "boom"],
      [type |-> "Error", payload |-> ""],
      [type |-> "string", payload |-> "oops"],
      [type |-> "nullish", payload |-> ""] }

\* String(error)
StringOf(e) ==
    CASE e.type = "Error" -> IF e.payload = "" THEN "Error" ELSE "Error: " \o e.payload
      [] e.type = "string" -> e.payload
      [] OTHER -> "null"

\* error.message is a property read: it throws a TypeError on null/undefined.
MessageReadThrows(e) == e.type = "nullish"

\* error.message || String(error)
ErrorText(e) ==
    IF e.type = "Error" /\ e.payload # "" THEN e.payload ELSE StringOf(e)

\* ---------------------------------------------------------------- state

VARIABLES
    specs,          \* the list passed as `specs` and `allSpecs`
    maxWorkers,     \* config.maxWorkers
    pc,             \* where the coordinator is
    queue,          \* const queue = [...specs]
    activeWorkers,  \* keys of the Map activeWorkers
    allResults,     \* const allResults: TestResult[]
    progress,       \* the ProgressTracker's fields
    snapshot,       \* the counts last computed by ProgressTracker.update
    race,           \* the promise of the pending Promise.race
    started,        \* specs runWorker was called with, in call order
    settled,        \* how each worker promise settled, in settling order
    aggregate,      \* <<>> or <<the OrchestratorResults returned>>
    exit,           \* <<>> or <<the status given to process.exit>>
    report,         \* <<>> or <<the results the written report was made from>>
    fs,             \* the specs directory: what readdir finds below it
    credential,     \* whether process.env.CURSOR_API_KEY is set
    hung,           \* the specs whose agent process never closes
    health,         \* the requests made to the application's health endpoint
    w,              \* the single runWorker call of `run <spec>`
    cfg,            \* the loadConfig call
    invocation,     \* the command line main() was started with
    unloadable,     \* the specs whose file loadSpec cannot load
    project,        \* the project directory `init` works on, and where init is
    debugMode       \* let debugMode in worker.ts

\* What the scheduler neither reads into its locals nor writes.
outside == <<fs, credential, hung, health, w, cfg, invocation, unloadable,
             project, debugMode>>

vars == <<specs, maxWorkers, pc, queue, activeWorkers, allResults, progress,
          snapshot, race, started, settled, aggregate, exit, report, outside>>

\* ------------------------------------------------------- ProgressTracker

\* constructor(total, initialQueue)
NewProgressTracker(total, initialQueue) ==
    [running |-> {}, completed |-> <<>>, queue |-> initialQueue,
     total |-> total, lastProgressLine |-> <<>>]

\* addRunning: this.running.set(spec, ...) on a Map keyed by the spec name
AddRunning(pr, name) == [pr EXCEPT !.running = @ \cup {name}]

\* removeRunning: this.running.delete(spec)
RemoveRunning(pr, name) == [pr EXCEPT !.running = @ \ {name}]

\* addCompleted: push, then removeRunning(result.spec)
AddCompleted(pr, result) ==
    RemoveRunning([pr EXCEPT !.completed = Append(@, result)], result.spec)

\* setQueue
SetQueue(pr, q) == [pr EXCEPT !.queue = q]

\* results.filter((r) => r.status === status).length
CountStatus(results, status) ==
    Cardinality({ i \in 1..Len(results) : results[i].status = status })

\* The counts update() computes.
SnapshotOf(pr) ==
    [completed |-> Len(pr.completed),
     total     |-> pr.total,
     passed    |-> CountStatus(pr.completed, "passed"),
     failed    |-> CountStatus(pr.completed, "failed"),
     running   |-> Cardinality(pr.running),
     queued    |-> Len(pr.queue)]

\* The status line update() builds: the queued part only when queueCount > 0.
StatusLine(s) ==
    <<s.completed, s.total, s.passed, s.failed, s.running>>
        \o (IF s.queued > 0 THEN <<s.queued>> ELSE <<>>)

\* update(): remembers the line when it differs from the last one printed.
Update(pr) == [pr EXCEPT !.lastProgressLine = StatusLine(SnapshotOf(pr))]

\* ------------------------------------------------------------ coordinator

NoRace == [state |-> "none", members |-> {}, value |-> <<>>]

\* No call of runWorker from main, no call of loadConfig under study.
NoCall == [pc |-> "none"]

\* The locals of runTestsWithParallelization(specs, specs, config, ...) at
\* its first loop test; `hangs` tells whether one agent process may hang.
CallWith(lists, limits, hangs) ==
    /\ specs \in lists
    /\ maxWorkers \in limits
    /\ pc = "outer"
    /\ queue = specs
    /\ activeWorkers = {}
    /\ allResults = <<>>
    /\ progress = NewProgressTracker(Len(specs), specs)
    /\ snapshot = <<>>
    /\ race = NoRace
    /\ started = <<>>
    /\ settled = <<>>
    /\ aggregate = <<>>
    /\ exit = <<>>
    /\ report = <<>>
    /\ fs = FsOf(specs)
    /\ credential \in BOOLEAN
    /\ hung \in (IF hangs THEN { {p} : p \in Range(specs) } ELSE { {} })
    /\ health = <<>>
    /\ w = NoCall
    /\ cfg = NoCall
    /\ invocation = NoCall
    /\ unloadable = {}
    /\ project = NoCall
    /\ debugMode = FALSE

\* The scheduler as runOrchestrator calls it: with a non-empty list.
InitWith(limits) == CallWith(DiscoveredLists, limits, FALSE)

\* maxWorkers comes unvalidated from the config file, parseInt(MAX_WORKERS)
\* or the default 5: any integer.
Init == InitWith(-1..MaxLimit)

\* The statistics and the object returned after the loop.
Aggregate(results) ==
    [total   |-> Len(results),
     passed  |-> CountStatus(results, "passed"),
     failed  |-> CountStatus(results, "failed"),
     results |-> results,
     executionTime |-> 0]

\* A mutant of LoopTest: do { ... } while, the body is entered untested.
LoopTestBodyFirst ==
    /\ pc = "outer"
    /\ pc' = "inner"
    /\ UNCHANGED <<outside, report, specs, maxWorkers, queue, activeWorkers,
                   allResults, progress, snapshot, race, started, settled,
                   aggregate, exit>>

\* while (queue.length > 0 || activeWorkers.size > 0): enter the body, or
\* leave the loop, run `finally` and return the aggregate.
LoopTest ==
    /\ pc = "outer"
    /\ IF queue # <<>> \/ activeWorkers # {}
       THEN pc' = "inner" /\ aggregate' = aggregate
       ELSE pc' = "returned" /\ aggregate' = <<Aggregate(allResults)>>
    /\ UNCHANGED <<outside, report, specs, maxWorkers, queue, activeWorkers,
                   allResults,
                   progress, snapshot, race, started, settled, exit>>

\* A mutant of CanAdmit: off by one in the capacity test.
CanAdmitOffByOne(active, q, limit) == Cardinality(active) <= limit /\ q # <<>>

\* A mutant of CanAdmit: a worker is started only when none is in flight.
CanAdmitWhenIdle(active, q, limit) == active = {} /\ limit > 0 /\ q # <<>>

\* A mutant of CanAdmit: one slot is never used.
CanAdmitOneShort(active, q, limit) == Cardinality(active) < limit - 1 /\ q # <<>>

\* while (activeWorkers.size < config.maxWorkers && queue.length > 0)
CanAdmit(active, q, limit) == Cardinality(active) < limit /\ q # <<>>

\* A mutant of Shift: queue.pop(), the last element.
ShiftLast(q) == [spec |-> q[Len(q)], rest |-> SubSeq(q, 1, Len(q) - 1)]

\* A mutant of Shift: queue[0], the head is read but stays queued.
ShiftKeepsHead(q) == [spec |-> Head(q), rest |-> q]

\* const spec = queue.shift()!
Shift(q) == [spec |-> Head(q), rest |-> Tail(q)]

\* One pass of the inner loop's body: shift the head of the queue, record it
\* as running, print progress, call runWorker and register its promise.
Admit ==
    /\ pc = "inner"
    /\ CanAdmit(activeWorkers, queue, maxWorkers)
    /\ LET spec == Shift(queue).spec
           rest == Shift(queue).rest
           pr   == SetQueue(AddRunning(progress, Basename(spec)), rest)
       IN /\ queue' = rest
          /\ progress' = Update(pr)
          /\ snapshot' = <<SnapshotOf(pr)>>
          /\ started' = Append(started, spec)
          /\ activeWorkers' = activeWorkers \cup {spec}
    /\ UNCHANGED <<outside, report, specs, maxWorkers, pc, allResults, race, settled, aggregate,
                   exit>>

\* if (activeWorkers.size > 0) await Promise.race(activeWorkers.values())
BeginWait ==
    /\ pc = "inner"
    /\ ~CanAdmit(activeWorkers, queue, maxWorkers)
    /\ activeWorkers # {}
    /\ pc' = "await"
    /\ race' = [state |-> "pending", members |-> activeWorkers, value |-> <<>>]
    /\ UNCHANGED <<outside, report, specs, maxWorkers, queue, activeWorkers,
                   allResults,
                   progress, snapshot, started, settled, aggregate, exit>>

\* Nothing in flight: the body ends without an await and the loop test is
\* evaluated again at once.
SkipWait ==
    /\ pc = "inner"
    /\ ~CanAdmit(activeWorkers, queue, maxWorkers)
    /\ activeWorkers = {}
    /\ pc' = "outer"
    /\ UNCHANGED <<outside, report, specs, maxWorkers, queue, activeWorkers,
                   allResults,
                   progress, snapshot, race, started, settled, aggregate, exit>>

\* A mutant of Push: allResults.unshift(completed).
PushFront(results, completed) == <<completed>> \o results

\* allResults.push(completed)
Push(results, completed) == Append(results, completed)

\* The await continues: with the value of the race, pushed to allResults, or
\* by throwing its rejection out of the function (through `finally`).
Resume ==
    /\ pc = "await"
    /\ race.state \in {"fulfilled", "rejected"}
    /\ IF race.state = "fulfilled"
       THEN pc' = "outer" /\ allResults' = Push(allResults, race.value[1])
       ELSE pc' = "thrown" /\ allResults' = allResults
    /\ race' = NoRace
    /\ UNCHANGED <<outside, report, specs, maxWorkers, queue, activeWorkers, progress,
                   snapshot, started, settled, aggregate, exit>>

\* ---------------------------------------------------------------- workers

\* Promise.race settles with the first of its members to settle.
RaceAfter(r, spec, state, value) ==
    IF r.state = "pending" /\ spec \in r.members
    THEN [r EXCEPT !.state = state, !.value = value]
    ELSE r

\* Callbacks run while the coordinator is suspended or has thrown.
CallbacksMayRun == pc \in {"await", "thrown"}

\* The .then callback of a worker whose runWorker resolved.
WorkerResolved(spec, result) ==
    /\ CallbacksMayRun
    /\ spec \in activeWorkers
    /\ activeWorkers' = activeWorkers \ {spec}
    /\ LET pr == SetQueue(AddCompleted(progress, result), queue)
       IN /\ progress' = Update(pr)
          /\ snapshot' = <<SnapshotOf(pr)>>
    /\ race' = RaceAfter(race, spec, "fulfilled", <<result>>)
    /\ settled' = Append(settled, [spec |-> spec, how |-> result.status])
    /\ UNCHANGED <<outside, report, specs, maxWorkers, pc, queue, allResults, started,
                   aggregate, exit>>

\* The errorResult of the .catch callback.
ErrorResult(spec, error) == TestResult(Basename(spec), "failed", 0, ErrorText(error))

\* The .catch callback of a worker whose runWorker rejected with `error`.
WorkerRejected(spec, error) ==
    /\ CallbacksMayRun
    /\ spec \in activeWorkers
    /\ activeWorkers' = activeWorkers \ {spec}
    /\ IF MessageReadThrows(error)
       THEN /\ UNCHANGED <<progress, snapshot>>
            /\ race' = RaceAfter(race, spec, "rejected", <<>>)
       ELSE LET result == ErrorResult(spec, error)
                pr == SetQueue(AddCompleted(progress, result), queue)
            IN /\ progress' = Update(pr)
               /\ snapshot' = <<SnapshotOf(pr)>>
               /\ race' = RaceAfter(race, spec, "fulfilled", <<result>>)
    /\ settled' = Append(settled, [spec |-> spec, how |-> "rejected"])
    /\ UNCHANGED <<outside, report, specs, maxWorkers, pc, queue, allResults, started,
                   aggregate, exit>>

\* loadSpec's catch wraps every failure in a new Error.
LoadError == [type |-> "Error", payload |-> "Failed to load spec"]

\* callCursorAgent rejects with this when CURSOR_API_KEY is not set.
MissingKeyError == [type |-> "Error", payload |-> "CURSOR_API_KEY not set"]

\* What runWorker can reject with: without the key it cannot get past
\* callCursorAgent.
WorkerRejections ==
    IF credential THEN RejectionValues ELSE RejectionValues \cup {MissingKeyError}

\* A started worker settles, unless its agent process hangs; it resolves only
\* when callCursorAgent did, which needs the key. A worker whose spec does
\* not load rejects with loadSpec's error, before anything else can fail.
WorkerSettles ==
    \E spec \in activeWorkers \ hung :
        \/ /\ credential
           /\ spec \notin unloadable
           /\ \E result \in ResolvedResults(spec) : WorkerResolved(spec, result)
        \/ \E error \in (IF spec \in unloadable THEN {LoadError} ELSE WorkerRejections) :
               WorkerRejected(spec, error)

\* -------------------------------------------------------------------- CLI

\* process.exit(results.failed > 0 ? 1 : 0)
ExitStatus(results) == IF results.failed > 0 THEN 1 ELSE 0

\* main(): the `run` command without a spec path.  An error thrown by the
\* scheduler, or by runOrchestrator writing the report, reaches main's catch,
\* which exits with 1.
Exit ==
    /\ pc \in {"returned", "thrown", "nospecs"}
    /\ \E reportWritten \in BOOLEAN :
          IF pc = "returned" /\ reportWritten
          THEN exit' = <<ExitStatus(aggregate[1])>> /\ report' = <<aggregate[1]>>
          ELSE exit' = <<1>> /\ report' = report
    /\ pc' = "exited"
    /\ UNCHANGED <<outside, specs, maxWorkers, queue, activeWorkers, allResults,
                   progress, snapshot, race, started, settled, aggregate>>

\* -------------------------------------------------------- runOrchestrator

\* A mutant of Discover: checkAppHealth(baseUrl, endpoint) is called before
\* the scheduler.
DiscoverChecksHealth ==
    /\ pc = "discover"
    /\ specs' = DiscoverSpecs(fs)
    /\ queue' = specs'
    /\ progress' = NewProgressTracker(Len(specs'), specs')
    /\ pc' = IF specs' = <<>> THEN "nospecs" ELSE "outer"
    /\ health' = IF specs' = <<>> THEN health ELSE Append(health, "/health")
    /\ UNCHANGED <<fs, credential, hung, w, cfg, invocation, unloadable, project,
                   debugMode, report,
                   maxWorkers,
                   activeWorkers, allResults, snapshot, race, started, settled,
                   aggregate, exit>>

\* A mutant of Discover: the empty list is passed on to the scheduler.
DiscoverUnchecked ==
    /\ pc = "discover"
    /\ specs' = DiscoverSpecs(fs)
    /\ queue' = specs'
    /\ progress' = NewProgressTracker(Len(specs'), specs')
    /\ pc' = "outer"
    /\ UNCHANGED <<outside, report, maxWorkers, activeWorkers, allResults,
                   snapshot, race, started, settled, aggregate, exit>>

\* runOrchestrator up to the scheduler's first loop test: discover the specs,
\* throw when there are none, otherwise call the scheduler with the list.
\* (ensureReportDir in between catches its own errors.)
Discover ==
    /\ pc = "discover"
    /\ specs' = DiscoverSpecs(fs)
    /\ queue' = specs'
    /\ progress' = NewProgressTracker(Len(specs'), specs')
    /\ pc' = IF specs' = <<>> THEN "nospecs" ELSE "outer"
    /\ UNCHANGED <<outside, report, maxWorkers, activeWorkers, allResults,
                   snapshot, race, started, settled, aggregate, exit>>

\* ------------------------------------------------- runWorker, `run <spec>`
\* The call main makes for `e2e-agent run <spec-path>`, without --debug.

\* What the agent's output is made of: a blank, the braces, and the bodies
\* "success":true (t) and "success":false,"error":"assertion failed" (f).
\* A string is a sequence of these.
Chars == {" ", "{", "}", "t", "f"}

\* String.prototype.trim()
RECURSIVE Trim(_)
Trim(s) ==
    IF s = <<>> THEN s
    ELSE IF Head(s) \in {" ", "\n"} THEN Trim(Tail(s))
    ELSE IF s[Len(s)] \in {" ", "\n"} THEN Trim(SubSeq(s, 1, Len(s) - 1))
    ELSE s

\* output.match(/\{[\s\S]*\}/): <<>>, or <<the text from the first { to the
\* last } after it>>.
JsonMatch(output) ==
    LET opens == { i \in 1..Len(output) : output[i] = "{" }
        first == CHOOSE i \in opens : \A k \in opens : i <= k
        closes == { j \in 1..Len(output) : output[j] = "}" /\ j > first }
        last == CHOOSE j \in closes : \A k \in closes : j >= k
    IN IF opens = {} THEN <<>>
       ELSE IF closes = {} THEN <<>>
       ELSE <<SubSeq(output, first, last)>>

\* JSON.parse of a text that starts with { and ends with }: an object with
\* at most the one body between blanks, anything else is a SyntaxError.
JsonParse(text) ==
    LET inner == Trim(SubSeq(text, 2, Len(text) - 1))
    IN CASE inner = <<>>    -> [valid |-> TRUE, success |-> "undefined", error |-> NoError]
         [] inner = <<"t">> -> [valid |-> TRUE, success |-> "true", error |-> NoError]
         [] inner = <<"f">> -> [valid |-> TRUE, success |-> "false", error |-> "assertion failed"]
         [] OTHER           -> [valid |-> FALSE, success |-> "undefined", error |-> NoError]

\* A mutant of ParseAgentResult: an object without a success field counts
\* as a success.
ParseAgentResultNotFalse(output) ==
    LET m == JsonMatch(output)
    IN IF m # <<>> /\ JsonParse(m[1]).valid
       THEN [success |-> JsonParse(m[1]).success # "false", error |-> JsonParse(m[1]).error]
       ELSE [success |-> FALSE, error |-> "Could not parse agent response"]

\* parseAgentResult(output)
ParseAgentResult(output) ==
    LET m == JsonMatch(output)
    IN IF m # <<>> /\ JsonParse(m[1]).valid
       THEN [success |-> JsonParse(m[1]).success = "true", error |-> JsonParse(m[1]).error]
       ELSE [success |-> FALSE, error |-> "Could not parse agent response"]

\* Nothing is thrown.
NoThrow == [type |-> "none", payload |-> ""]

\* An object given as `steps` whose map method throws.
Hostile == JsObject("map throws")

\* What import() of a spec file gives: it fails (`imports` false), or it
\* yields a module whose default export has or lacks each field; `thrown`
\* is what the map method of hostile steps throws.
SpecModules ==
    { m \in [imports : BOOLEAN,
              goal : {Undefined, JsString(""), JsString("buy a ticket")},
              startUrl : {Undefined, JsString(""), JsString("/cart")},
              steps : {Undefined, JsArray("open the cart"), Hostile},
              successCriteria : {Undefined, JsArray("the cart is shown")},
              metadata : {Undefined, JsObject("tags")},
              thrown : {NoThrow} \cup RejectionValues] :
          (m.steps = Hostile) <=> (m.thrown # NoThrow) }

\* The spec files of the runs that go on to the agent: one well formed, one
\* without a goal, and those whose steps make buildTestPrompt throw.
SpecFiles ==
    { m \in SpecModules :
          /\ m.imports
          /\ m.startUrl = JsString("/cart")
          /\ m.successCriteria = JsArray("the cart is shown")
          /\ m.metadata = Undefined
          /\ m.steps # Undefined
          /\ m.goal # JsString("")
          /\ m.goal = Undefined => m.steps = JsArray("open the cart") }

\* A mutant of LoadSpecReturns: only goal is required.
LoadSpecGoalOnly(path, m) ==
    IF ~m.imports \/ ~JsTruthy(m.goal)
    THEN <<>>
    ELSE <<[path |-> path, goal |-> m.goal, startUrl |-> m.startUrl,
            steps |-> OrElse(m.steps, JsArray("")),
            successCriteria |-> OrElse(m.successCriteria, JsArray("")),
            metadata |-> OrElse(m.metadata, JsObject(""))]>>

\* loadSpec(specPath, projectRoot): <<the TestSpec returned>>, or <<>> when
\* it throws.
LoadSpecReturns(path, m) ==
    IF ~m.imports \/ ~JsTruthy(m.goal) \/ ~JsTruthy(m.startUrl)
    THEN <<>>
    ELSE <<[path |-> path, goal |-> m.goal, startUrl |-> m.startUrl,
            steps |-> OrElse(m.steps, JsArray("")),
            successCriteria |-> OrElse(m.successCriteria, JsArray("")),
            metadata |-> OrElse(m.metadata, JsObject(""))]>>

\* The 'error' event of the child process: spawn found no `agent` binary,
\* or failed otherwise.
ProcessErrors == {"ENOENT", "EACCES"}

\* What the 'error' handler rejects with.
SpawnError(code) ==
    IF code = "ENOENT"
    THEN [type |-> "Error", payload |-> "agent CLI not found"]
    ELSE [type |-> "Error", payload |-> "spawn agent " \o code]

\* The exit codes 'close' reports.
ExitCodes == {0, 1}

AgentFailed == [type |-> "Error", payload |-> "Agent failed with code 1"]

\* A mutant of Settle: a later resolve or reject replaces the earlier one.
SettleAgain(promise, state, text, error) ==
    [state |-> state, text |-> text, error |-> error]

\* resolve/reject of a promise: only the first call has an effect.
Settle(promise, state, text, error) ==
    IF promise.state = "pending"
    THEN [state |-> state, text |-> text, error |-> error]
    ELSE promise

NoPromise == [state |-> "none", text |-> <<>>, error |-> <<>>]

\* runWorker has been called with `spec`; it is at `await loadSpec(...)`.
WorkerCallsOn(files) ==
    [pc : {"load"}, spec : Paths, file : files, loaded : {<<>>},
     proc : {"none"}, errorEmitted : {FALSE}, stdout : {<<>>},
     stderr : {FALSE}, code : {<<>>},
     streaming : {FALSE}, lineBuffer : {<<>>}, resultText : {<<>>},
     agent : {NoPromise}, result : {<<>>}, error : {<<>>}]

WorkerCalls == WorkerCallsOn(SpecFiles)

\* runWorker is called; nothing of the scheduler exists.
WorkerRun(calls, keys, flags) ==
    /\ w \in calls
    /\ credential \in keys
    /\ debugMode \in flags
    /\ cfg = NoCall
    /\ invocation = NoCall
    /\ unloadable = {}
    /\ project = NoCall
    /\ pc = "single"
    /\ specs = <<>>
    /\ maxWorkers = MaxLimit
    /\ queue = <<>>
    /\ activeWorkers = {}
    /\ allResults = <<>>
    /\ progress = NewProgressTracker(0, <<>>)
    /\ snapshot = <<>>
    /\ race = NoRace
    /\ started = <<>>
    /\ settled = <<>>
    /\ aggregate = <<>>
    /\ exit = <<>>
    /\ report = <<>>
    /\ fs = FsOf(<<w.spec>>)
    /\ hung = {}
    /\ health = <<>>

\* main calls runWorker without --debug.
SingleRun(calls, keys) == WorkerRun(calls, keys, {FALSE})

InitSingle == SingleRun(WorkerCalls, BOOLEAN)

orchestration == <<specs, maxWorkers, queue, activeWorkers, allResults,
                   progress, snapshot, race, started, settled, aggregate,
                   report, fs, credential, hung, health, unloadable, debugMode>>

scheduler == <<orchestration, invocation, project>>

\* await loadSpec(specPath, projectRoot): its rejection leaves runWorker.
LoadSpec ==
    /\ w.pc = "load"
    /\ w' = IF LoadSpecReturns(w.spec, w.file) = <<>>
            THEN [w EXCEPT !.pc = "rejected", !.error = <<LoadError>>]
            ELSE [w EXCEPT !.pc = "call",
                           !.loaded = LoadSpecReturns(w.spec, w.file)]
    /\ UNCHANGED <<scheduler, cfg, pc, exit>>

\* buildTestPrompt, then callCursorAgent up to spawn: what buildTestPrompt
\* throws leaves runWorker; without the key the promise is rejected and no
\* process is spawned.
CallCursorAgent ==
    /\ w.pc = "call"
    /\ w' = IF w.loaded[1].steps = Hostile
            THEN [w EXCEPT !.pc = "rejected", !.error = <<w.file.thrown>>]
            ELSE IF ~credential
            THEN [w EXCEPT !.pc = "agent",
                           !.agent = [state |-> "rejected", text |-> <<>>,
                                      error |-> <<MissingKeyError>>]]
            ELSE [w EXCEPT !.pc = "agent", !.proc = "running",
                           !.streaming = debugMode,
                           !.agent = [state |-> "pending", text |-> <<>>,
                                      error |-> <<>>]]
    /\ UNCHANGED <<scheduler, cfg, pc, exit>>

MaxStream == 6
MaxChunk == 2

\* What the agent writes with --output-format stream-json, one JSON event
\* per line: "<" is the text {"type":"result","result": and "A", "B", "E"
\* are the texts "A"}, "B"} and ""} that end such an event.
StreamTokens == {"<", "A", "B", "E", "\n"}

\* The chunks a data event can deliver after `written` characters: one
\* character of plain output, or up to MaxChunk tokens of the stream.
Chunks(streaming, written) ==
    IF streaming
    THEN { c \in UNION { [1..n -> StreamTokens] : n \in 1..MaxChunk } :
              written + Len(c) <= MaxStream }
    ELSE IF written < MaxOutput THEN { <<c>> : c \in Chars } ELSE {}

\* text.split("\n")
RECURSIVE Split(_)
Split(text) ==
    LET breaks == { i \in 1..Len(text) : text[i] = "\n" }
        first == CHOOSE i \in breaks : \A k \in breaks : i <= k
    IN IF breaks = {} THEN <<text>>
       ELSE <<SubSeq(text, 1, first - 1)>> \o Split(SubSeq(text, first + 1, Len(text)))

\* JSON.parse(line) gives an event of type "result".
IsResultEvent(line) ==
    /\ Len(Trim(line)) = 2
    /\ Trim(line)[1] = "<"
    /\ Trim(line)[2] \in {"A", "B", "E"}

\* event.result || ""
ResultOf(line) == IF Trim(line)[2] = "E" THEN <<>> ELSE <<Trim(line)[2]>>

\* The body of the loop over the complete lines: blank lines and lines that
\* are not JSON are skipped, a result event sets resultText (the tool count
\* of other events is only printed).
AfterLine(resultText, line) ==
    IF Trim(line) = <<>> THEN resultText
    ELSE IF IsResultEvent(line) THEN ResultOf(line)
    ELSE resultText

RECURSIVE HandleLines(_, _)
HandleLines(resultText, lines) ==
    IF lines = <<>> THEN resultText
    ELSE HandleLines(AfterLine(resultText, Head(lines)), Tail(lines))

\* agentProcess.stdout.on("data"): stdout += chunk, and in debug mode the
\* complete lines are handled and the rest is kept in lineBuffer.
StdoutData ==
    /\ w.pc # "none"
    /\ w.proc = "running"
    /\ \E chunk \in Chunks(w.streaming, Len(w.stdout)) :
          LET lines == Split(w.lineBuffer \o chunk)
          IN w' = IF debugMode
                  THEN [w EXCEPT !.stdout = @ \o chunk,
                                 !.lineBuffer = lines[Len(lines)],
                                 !.resultText =
                                     HandleLines(@, SubSeq(lines, 1, Len(lines) - 1))]
                  ELSE [w EXCEPT !.stdout = @ \o chunk]
    /\ UNCHANGED <<scheduler, cfg, pc, exit>>

\* agentProcess.stderr.on("data"): stderr += chunk; whether anything was
\* written is all that is kept of it.
StderrData ==
    /\ w.pc # "none"
    /\ w.proc = "running"
    /\ ~w.stderr
    /\ w' = [w EXCEPT !.stderr = TRUE]
    /\ UNCHANGED <<scheduler, cfg, pc, exit>>

\* agentProcess.on("error")
ProcessError ==
    /\ w.pc # "none"
    /\ w.proc = "running"
    /\ ~w.errorEmitted
    /\ \E code \in ProcessErrors :
          w' = [w EXCEPT !.errorEmitted = TRUE,
                         !.agent = Settle(@, "rejected", <<>>, <<SpawnError(code)>>)]
    /\ UNCHANGED <<scheduler, cfg, pc, exit>>

\* What the close handler resolves with: resultText || stdout.trim() in
\* debug mode, stdout.trim() otherwise.
ResolvedText(debug, resultText, stdout) ==
    IF debug /\ resultText # <<>> THEN resultText ELSE Trim(stdout)

\* agentProcess.on("close"). In debug mode the rest of lineBuffer is parsed
\* and handled first, with a callback that drops the updates, so that
\* resultText stays as it is.
ProcessClose ==
    /\ w.pc # "none"
    /\ w.proc = "running"
    /\ \E code \in ExitCodes :
          w' = [w EXCEPT !.proc = "closed",
                         !.code = <<code>>,
                         !.agent = IF code = 0 \/ Trim(w.stdout) # <<>>
                                   THEN Settle(@, "resolved",
                                               ResolvedText(debugMode, w.resultText,
                                                            w.stdout), <<>>)
                                   ELSE Settle(@, "rejected", <<>>, <<AgentFailed>>)]
    /\ UNCHANGED <<scheduler, cfg, pc, exit>>

\* setDebugMode(enabled), called while a worker exists.
SetDebugMode ==
    /\ w.pc \notin {"none", "load"}
    /\ w.proc # "closed"
    /\ debugMode' = ~debugMode
    /\ UNCHANGED <<specs, maxWorkers, queue, activeWorkers, allResults, progress,
                   snapshot, race, started, settled, aggregate, report, fs,
                   credential, hung, health, unloadable, invocation, project,
                   w, cfg, pc, exit>>

\* runWorker after `await callCursorAgent(...)`: the rejection leaves
\* runWorker, the text is parsed into the TestResult returned.
WorkerContinues ==
    /\ w.pc = "agent"
    /\ \/ /\ w.agent.state = "rejected"
          /\ w' = [w EXCEPT !.pc = "rejected", !.error = w.agent.error]
       \/ /\ w.agent.state = "resolved"
          /\ \E duration \in 0..MaxDuration :
                LET parsed == ParseAgentResult(w.agent.text)
                IN w' = [w EXCEPT !.pc = "resolved",
                                  !.result = <<TestResult(Basename(w.spec),
                                        IF parsed.success THEN "passed" ELSE "failed",
                                        duration, parsed.error)>>]
    /\ UNCHANGED <<scheduler, cfg, pc, exit>>

\* A mutant of ExitSingle: the status of the result is not looked at.
ExitSingleAnyResult ==
    /\ pc = "single"
    /\ w.pc \in {"resolved", "rejected"}
    /\ exit' = IF w.pc = "resolved" THEN <<0>> ELSE <<1>>
    /\ pc' = "exited"
    /\ UNCHANGED <<scheduler, cfg, w>>

\* main: process.exit(result.status === 'passed' ? 0 : 1), or the catch's
\* process.exit(1) when runWorker rejected.
ExitSingle ==
    /\ pc = "single"
    /\ w.pc \in {"resolved", "rejected"}
    /\ exit' = IF w.pc = "resolved" /\ w.result[1].status = "passed" THEN <<0>> ELSE <<1>>
    /\ pc' = "exited"
    /\ UNCHANGED <<scheduler, cfg, w>>

NextSingle ==
    \/ LoadSpec \/ CallCursorAgent \/ StdoutData \/ StderrData \/ ProcessError
    \/ ProcessClose \/ WorkerContinues \/ ExitSingle

SpecSingle == InitSingle /\ [][NextSingle]_vars

MaxText == 5

\* What the agent can have written to stdout.
Texts == UNION { [1..n -> Chars] : n \in 0..MaxText }

\* runWorker at the moment callCursorAgent has resolved with the trimmed
\* output of a closed agent process.
InitParse ==
    SingleRun({ [c EXCEPT !.pc = "agent",
                          !.loaded = LoadSpecReturns(c.spec, c.file),
                          !.proc = "closed",
                          !.stdout = t,
                          !.agent = [state |-> "resolved", text |-> Trim(t),
                                     error |-> <<>>]] :
                    c \in WorkerCallsOn({ m \in SpecFiles :
                                              /\ m.goal # Undefined
                                              /\ m.steps # Hostile }),
                    t \in Texts },
              {TRUE})

SpecParse == InitParse /\ [][WorkerContinues]_vars

\* callCursorAgent for one well-formed spec, with the debug flag set or not
\* when runWorker is called.
InitStream ==
    WorkerRun({ c \in WorkerCallsOn({ m \in SpecFiles :
                                          m.goal # Undefined /\ m.steps # Hostile }) :
                    c.spec = [dir |-> "a", base |-> "cart"] },
              {TRUE}, BOOLEAN)

NextStream == LoadSpec \/ CallCursorAgent \/ StdoutData \/ ProcessClose

\* The debug flag stays as it was when the agent was spawned.
SpecStream == InitStream /\ [][NextStream]_vars

\* setDebugMode may be called at any time.
SpecSetDebugMode == InitStream /\ [][NextStream \/ SetDebugMode]_vars

\* loadSpec alone, on every module content.
InitLoad == SingleRun(WorkerCallsOn(SpecModules), {TRUE})

SpecLoad == InitLoad /\ [][LoadSpec]_vars

\* ------------------------------------------------------------- loadConfig

\* The fields of E2EConfig.
Fields ==
    {"specsDir", "maxWorkers", "maxSteps", "maxRetries", "timeout", "reportDir",
     "playwrightConfig", "baseUrl", "healthCheckEndpoint", "waitForApp",
     "saveLlmLogs"}

\* An object without own properties.
EmptyConfig == [f \in {} |-> Undefined]

\* { ...a, ...b }: the own properties of b replace those of a, a property
\* whose value is undefined included.
Spread(a, b) ==
    [f \in DOMAIN a \cup DOMAIN b |-> IF f \in DOMAIN b THEN b[f] ELSE a[f]]

\* A Partial<E2EConfig> written by `source`: no field, or one field, given a
\* value or left undefined.
PartialConfigs(source) ==
    {EmptyConfig}
    \cup { [f \in {k} |-> val] : k \in Fields, val \in {JsString(source), Undefined} }

\* What loadConfigFile returns: null (<<>>) or the object of the first
\* config file found.
FileConfigs == {<<>>} \cup { <<c>> : c \in PartialConfigs("file") }

\* The environment variables read, and the strings one can hold.
EnvVars ==
    {"E2E_SPECS_DIR", "MAX_WORKERS", "MAX_RETRIES", "TIMEOUT", "E2E_REPORT_DIR",
     "PLAYWRIGHT_CONFIG", "BASE_URL", "SAVE_LLM_LOGS", "HOST_URL"}
EnvStrings == {"", "7", "7x", "true"}

\* process.env: no variable of EnvVars set, or one.
Envs ==
    {[x \in {} |-> ""]} \cup { [x \in {k} |-> str] : k \in EnvVars, str \in EnvStrings }

\* process.env.X used as a condition: set and not the empty string.
Truthy(env, var) == var \in DOMAIN env /\ env[var] # ""

\* parseInt(str, 10): the leading digits, NaN when there are none.
ParseInt(str) ==
    CASE str = "7" -> JsNumber("7") [] str = "7x" -> JsNumber("7") [] OTHER -> JsNumber("NaN")

\* DEFAULT_CONFIG
DEFAULT_CONFIG ==
    [f \in {"specsDir", "maxWorkers", "maxRetries", "timeout", "reportDir",
            "baseUrl", "saveLlmLogs"} |->
        CASE f = "specsDir" -> JsString("e2e/specs")
          [] f = "maxWorkers" -> JsNumber("5")
          [] f = "maxRetries" -> JsNumber("3")
          [] f = "timeout" -> JsNumber("300000")
          [] f = "reportDir" -> JsString("docs/e2e-test-results")
          [] f = "baseUrl" -> JsString("http://localhost:4000")
          [] f = "saveLlmLogs" -> JsBoolean(FALSE)]

\* getBaseUrl(): docker is DOCKER === 'true' || CI === 'true', linux is
\* process.platform === 'linux'.
GetBaseUrl(env, docker, linux) ==
    IF Truthy(env, "BASE_URL") THEN JsString(env["BASE_URL"])
    ELSE IF docker /\ linux
    THEN IF Truthy(env, "HOST_URL") THEN JsString(env["HOST_URL"])
         ELSE JsString("http://172.17.0.1:4000")
    ELSE IF docker THEN JsString("http://host.docker.internal:4000")
    ELSE JsString("http://localhost:4000")

\* The variable loadConfigFromEnv reads for a field, "" when it reads none.
EnvVarOf(f) ==
    CASE f = "specsDir" -> "E2E_SPECS_DIR"
      [] f = "maxWorkers" -> "MAX_WORKERS"
      [] f = "maxRetries" -> "MAX_RETRIES"
      [] f = "timeout" -> "TIMEOUT"
      [] f = "reportDir" -> "E2E_REPORT_DIR"
      [] f = "playwrightConfig" -> "PLAYWRIGHT_CONFIG"
      [] f = "baseUrl" -> "BASE_URL"
      [] f = "saveLlmLogs" -> "SAVE_LLM_LOGS"
      [] OTHER -> ""

\* loadConfigFromEnv()
LoadConfigFromEnv(env) ==
    LET set == { f \in Fields :
                    IF f = "saveLlmLogs" THEN "SAVE_LLM_LOGS" \in DOMAIN env
                    ELSE EnvVarOf(f) # "" /\ Truthy(env, EnvVarOf(f)) }
    IN [f \in set |->
          CASE f \in {"maxWorkers", "maxRetries", "timeout"} -> ParseInt(env[EnvVarOf(f)])
            [] f = "saveLlmLogs" -> JsBoolean(env["SAVE_LLM_LOGS"] = "true")
            [] OTHER -> JsString(env[EnvVarOf(f)])]

\* fileConfig || {}
FileOrEmpty(file) == IF file = <<>> THEN EmptyConfig ELSE file[1]

\* A mutant of MergeConfig: the config file spread after the environment.
MergeConfigFileLast(defaults, fileConfig, envConfig, cliConfig) ==
    Spread(Spread(Spread(defaults, envConfig), FileOrEmpty(fileConfig)), cliConfig)

\* mergeConfig(defaults, fileConfig, envConfig, cliConfig)
MergeConfig(defaults, fileConfig, envConfig, cliConfig) ==
    Spread(Spread(Spread(defaults, FileOrEmpty(fileConfig)), envConfig), cliConfig)

\* const defaults = { ...DEFAULT_CONFIG, baseUrl: getBaseUrl() }
Defaults(env, docker, linux) ==
    Spread(DEFAULT_CONFIG, [f \in {"baseUrl"} |-> GetBaseUrl(env, docker, linux)])

\* loadConfig(projectRoot, cliOverrides) has been called.
ConfigCalls ==
    [pc : {"load"}, file : FileConfigs, env : Envs, docker : BOOLEAN,
     linux : BOOLEAN, cli : PartialConfigs("cli"), result : {<<>>}]

ConfigRun(calls) ==
    /\ invocation = NoCall
    /\ unloadable = {}
    /\ project = NoCall
    /\ debugMode = FALSE
    /\ cfg \in calls
    /\ w = NoCall
    /\ credential = TRUE
    /\ pc = "config"
    /\ specs = <<>>
    /\ maxWorkers = MaxLimit
    /\ queue = <<>>
    /\ activeWorkers = {}
    /\ allResults = <<>>
    /\ progress = NewProgressTracker(0, <<>>)
    /\ snapshot = <<>>
    /\ race = NoRace
    /\ started = <<>>
    /\ settled = <<>>
    /\ aggregate = <<>>
    /\ exit = <<>>
    /\ report = <<>>
    /\ fs = FsOf(<<>>)
    /\ hung = {}
    /\ health = <<>>

InitConfig == ConfigRun(ConfigCalls)

\* loadConfig: defaults, file, environment and overrides merged.
LoadConfig ==
    /\ cfg.pc = "load"
    /\ cfg' = [cfg EXCEPT
                 !.pc = "loaded",
                 !.result = <<MergeConfig(Defaults(cfg.env, cfg.docker, cfg.linux),
                                          cfg.file, LoadConfigFromEnv(cfg.env),
                                          cfg.cli)>>]
    /\ UNCHANGED <<scheduler, w, pc, exit>>

SpecConfig == InitConfig /\ [][LoadConfig]_vars

\* -------------------------------------------------------- loadConfigFile

\* const configFiles, in the order they are tried.
ConfigFileNames == <<"e2e.config.ts", "e2e.config.js", ".e2erc.json", ".e2erc.js">>

\* configFile.endsWith('.json'); the others end with .ts or .js.
EndsWithJson(name) == name = ".e2erc.json"

\* What a candidate can be: missing, there but failing to import or to
\* parse, or there and holding an object, a number or null (for a module:
\* as its default export).
Contents == {"missing", "broken", "object", "number", "null"}

\* The value a candidate holds.
ValueIn(name, content) ==
    CASE content = "object" -> JsObject(name)
      [] content = "number" -> JsNumber("5")
      [] OTHER -> Null

\* typeof x === 'object'
TypeofObject(x) == x.t \in {"object", "array", "null"}

\* One turn of loadConfigFile's loop: <<the value returned>>, or <<>> when
\* the loop goes on to the next candidate.
TryConfigFile(name, content) ==
    IF content = "missing" \/ content = "broken"
    THEN <<>>
    ELSE IF ~EndsWithJson(name)
    THEN LET config == OrElse(ValueIn(name, content), JsObject(name \o " module"))
         IN IF JsTruthy(config) /\ TypeofObject(config) THEN <<config>> ELSE <<>>
    ELSE <<ValueIn(name, content)>>

\* loadConfigFile(projectRoot) has been called.
ConfigFileCalls ==
    [pc : {"lookup"}, contents : [1..Len(ConfigFileNames) -> Contents], i : {1},
     result : {<<>>}]

InitLookup == ConfigRun(ConfigFileCalls)

\* loadConfigFile: the next candidate is tried, or none is left and null is
\* returned.
LoadConfigFile ==
    /\ cfg.pc = "lookup"
    /\ cfg' = IF cfg.i > Len(ConfigFileNames)
              THEN [cfg EXCEPT !.pc = "returned", !.result = <<Null>>]
              ELSE IF TryConfigFile(ConfigFileNames[cfg.i], cfg.contents[cfg.i]) # <<>>
              THEN [cfg EXCEPT !.pc = "returned",
                               !.result = TryConfigFile(ConfigFileNames[cfg.i],
                                                        cfg.contents[cfg.i])]
              ELSE [cfg EXCEPT !.i = @ + 1]
    /\ UNCHANGED <<scheduler, w, pc, exit>>

SpecConfigFile == InitLookup /\ [][LoadConfigFile]_vars

\* ------------------------------------------------------------------ init
\* `e2e-agent init` in a project whose specs directory is the default
\* e2e/specs, which `fs` describes.

\* e2e/specs/.template.spec.ts, as a path and as what readdir reports.
TemplatePath == [dir |-> ".", base |-> ".template"]

TemplateEntry ==
    [dir |-> ".", base |-> ".template", suffix |-> TRUE, type |-> "file"]

\* The states of a file init may write: not there, there with the content
\* init writes, there with other content.
FileStates == {"absent", "written by init", "other content"}

\* The project directory before init: e2e.config.ts and the template in one
\* of these states, e2e/specs a directory, missing, or blocked by a regular
\* file on its path, and the directory writable or not.
Projects ==
    { p \in [pc : {"config"}, run : {1}, config : FileStates,
              specsDir : {"absent", "directory", "file"},
              template : FileStates, writable : BOOLEAN] :
          p.template # "absent" => p.specsDir = "directory" }

\* What is below e2e/specs in project p, given the spec files of its own.
ProjectTree(p, own) ==
    [root |-> p.specsDir = "directory",
     dirs |-> Dirs \cup {"."},
     entries |-> { SpecFile(q) : q \in own }
                   \cup (IF p.template # "absent" THEN {TemplateEntry} ELSE {})]

\* main calls init() in one of `projects`, which has at most `most` spec
\* files of its own.
InitIn(projects, most) ==
    /\ project \in projects
    /\ \E own \in SUBSET Paths :
          /\ Cardinality(own) <= most
          /\ own # {} => project.specsDir = "directory"
          /\ fs = ProjectTree(project, own)
    /\ maxWorkers \in 1..MaxLimit
    /\ credential = TRUE
    /\ hung = {}
    /\ health = <<>>
    /\ pc = "init"
    /\ specs = <<>>
    /\ queue = <<>>
    /\ activeWorkers = {}
    /\ allResults = <<>>
    /\ progress = NewProgressTracker(0, <<>>)
    /\ snapshot = <<>>
    /\ race = NoRace
    /\ started = <<>>
    /\ settled = <<>>
    /\ aggregate = <<>>
    /\ exit = <<>>
    /\ report = <<>>
    /\ w = NoCall
    /\ cfg = NoCall
    /\ invocation = NoCall
    /\ unloadable = {}
    /\ debugMode = FALSE

InitProject == InitIn(Projects, MaxSpecs - 1)

\* What init neither reads nor writes.
besidesFiles == <<specs, maxWorkers, queue, activeWorkers, allResults, progress,
                  snapshot, race, started, settled, aggregate, report,
                  credential, hung, health, unloadable, w, cfg, invocation, exit,
                  debugMode>>

\* A mutant of InitConfigFile: the config file is written without looking.
InitConfigFileAlways ==
    /\ project.pc = "config"
    /\ project' = IF project.writable
                  THEN [project EXCEPT !.pc = "mkdir", !.config = "written by init"]
                  ELSE [project EXCEPT !.pc = "failed"]
    /\ UNCHANGED <<besidesFiles, fs, pc>>

\* init: fs.access(configPath) succeeds and the file is left alone, or it
\* fails and the file is written; a failing writeFile throws out of init.
InitConfigFile ==
    /\ project.pc = "config"
    /\ project' = IF project.config # "absent"
                  THEN [project EXCEPT !.pc = "mkdir"]
                  ELSE IF project.writable
                  THEN [project EXCEPT !.pc = "mkdir", !.config = "written by init"]
                  ELSE [project EXCEPT !.pc = "failed"]
    /\ UNCHANGED <<besidesFiles, fs, pc>>

\* init: fs.mkdir(specsDir, {recursive: true}), its errors ignored.
InitMkdir ==
    /\ project.pc = "mkdir"
    /\ IF project.specsDir = "absent" /\ project.writable
       THEN /\ project' = [project EXCEPT !.pc = "template", !.specsDir = "directory"]
            /\ fs' = [fs EXCEPT !.root = TRUE]
       ELSE /\ project' = [project EXCEPT !.pc = "template"]
            /\ UNCHANGED fs
    /\ UNCHANGED <<besidesFiles, pc>>

\* init: fs.access(templatePath) succeeds and the template is left alone,
\* or it fails and the template is written; a failing writeFile throws.
InitTemplate ==
    /\ project.pc = "template"
    /\ IF project.template # "absent"
       THEN /\ project' = [project EXCEPT !.pc = "done"]
            /\ UNCHANGED fs
       ELSE IF project.specsDir = "directory" /\ project.writable
       THEN /\ project' = [project EXCEPT !.pc = "done", !.template = "written by init"]
            /\ fs' = [fs EXCEPT !.entries = @ \cup {TemplateEntry}]
       ELSE /\ project' = [project EXCEPT !.pc = "failed"]
            /\ UNCHANGED fs
    /\ UNCHANGED <<besidesFiles, pc>>

\* `e2e-agent init` is run a second time.
InitAgain ==
    /\ pc = "init"
    /\ project.pc \in {"done", "failed"}
    /\ project.run = 1
    /\ project' = [project EXCEPT !.pc = "config", !.run = 2]
    /\ UNCHANGED <<besidesFiles, fs, pc>>

NextInit == InitConfigFile \/ InitMkdir \/ InitTemplate \/ InitAgain

SpecInit == InitProject /\ [][NextInit]_vars

\* ------------------------------------------------------------------ main

MaxArgs == 3

\* The words a command line is made of: the two commands, the flags
\* parseArgs knows, a flag and a word it does not know, and two spec paths.
SpecPathWords == {"login.spec.ts", "specs/cart.spec.ts"}

Words == {"run", "init", "deploy", "--debug", "--help", "-h", "--verbose"}
             \cup SpecPathWords

\* arg.startsWith('--')
StartsWithDashes(arg) == arg \in {"--debug", "--help", "--verbose"}

\* process.argv.slice(2)
ArgLists == UNION { [1..n -> Words] : n \in 0..MaxArgs }

\* A mutant of ParseArg: a word after `run` is taken as the spec path only
\* when it follows `run` immediately.
ParseArgNextOnly(local, args, i) ==
    IF args[i] = "--help" \/ args[i] = "-h"
    THEN [local EXCEPT !.helped = TRUE]
    ELSE IF args[i] = "--debug"
    THEN [local EXCEPT !.debug = TRUE]
    ELSE IF args[i] = "run" \/ args[i] = "init"
    THEN [local EXCEPT
            !.command = <<args[i]>>,
            !.specPath = IF i + 1 <= Len(args) /\ ~StartsWithDashes(args[i + 1])
                         THEN <<args[i + 1]>>
                         ELSE @]
    ELSE IF local.command = <<>> /\ ~StartsWithDashes(args[i])
    THEN [local EXCEPT !.command = <<args[i]>>]
    ELSE local

\* One turn of parseArgs' loop, on args[i] (counted from 1 here); `helped`
\* is showHelp() followed by process.exit(0).
ParseArg(local, args, i) ==
    IF args[i] = "--help" \/ args[i] = "-h"
    THEN [local EXCEPT !.helped = TRUE]
    ELSE IF args[i] = "--debug"
    THEN [local EXCEPT !.debug = TRUE]
    ELSE IF args[i] = "run" \/ args[i] = "init"
    THEN [local EXCEPT
            !.command = <<args[i]>>,
            !.specPath = IF i + 1 <= Len(args) /\ ~StartsWithDashes(args[i + 1])
                         THEN <<args[i + 1]>>
                         ELSE @]
    ELSE IF local.command = <<>> /\ ~StartsWithDashes(args[i])
    THEN [local EXCEPT !.command = <<args[i]>>]
    ELSE IF local.command = <<"run">> /\ ~StartsWithDashes(args[i])
    THEN [local EXCEPT !.specPath = <<args[i]>>]
    ELSE local

\* command, specPath and debug as parseArgs declares them; null is <<>>.
ParseArgsLocals == [command |-> <<>>, specPath |-> <<>>, debug |-> FALSE,
                    helped |-> FALSE]

\* main() is entered with a command line.
InitCli ==
    /\ invocation \in [pc : {"main"}, args : ArgLists, i : {1},
                        local : {ParseArgsLocals}, debugMode : {FALSE},
                        runs : {"nothing"}]
    /\ w = NoCall
    /\ cfg = NoCall
    /\ unloadable = {}
    /\ project = NoCall
    /\ debugMode = FALSE
    /\ credential = TRUE
    /\ pc = "cli"
    /\ specs = <<>>
    /\ maxWorkers = MaxLimit
    /\ queue = <<>>
    /\ activeWorkers = {}
    /\ allResults = <<>>
    /\ progress = NewProgressTracker(0, <<>>)
    /\ snapshot = <<>>
    /\ race = NoRace
    /\ started = <<>>
    /\ settled = <<>>
    /\ aggregate = <<>>
    /\ exit = <<>>
    /\ report = <<>>
    /\ fs = FsOf(<<>>)
    /\ hung = {}
    /\ health = <<>>

\* main: without arguments it shows the help and exits 0; otherwise it
\* calls parseArgs.
MainStart ==
    /\ invocation.pc = "main"
    /\ IF Len(invocation.args) = 0
       THEN /\ invocation' = [invocation EXCEPT !.pc = "exited", !.runs = "showHelp"]
            /\ exit' = <<0>>
       ELSE /\ invocation' = [invocation EXCEPT !.pc = "parseArgs"]
            /\ UNCHANGED exit
    /\ UNCHANGED <<orchestration, w, cfg, pc, project>>

\* parseArgs: one turn of the loop.
ParseArgsLoop ==
    /\ invocation.pc = "parseArgs"
    /\ invocation.i <= Len(invocation.args)
    /\ LET local == ParseArg(invocation.local, invocation.args, invocation.i)
       IN  IF local.helped
           THEN /\ invocation' = [invocation EXCEPT !.pc = "exited",
                                                     !.local = local,
                                                     !.runs = "showHelp"]
                /\ exit' = <<0>>
           ELSE /\ invocation' = [invocation EXCEPT !.local = local,
                                                     !.i = @ + 1]
                /\ UNCHANGED exit
    /\ UNCHANGED <<orchestration, w, cfg, pc, project>>

\* What main calls for a parsed command line.
Dispatch(local) ==
    IF local.command = <<"init">> THEN "init"
    ELSE IF local.command = <<"run">> \/ local.command = <<>>
    THEN IF local.specPath # <<>> /\ local.specPath # <<"">>
         THEN "runWorker"
         ELSE "runOrchestrator"
    ELSE "showHelp"

\* parseArgs returns; main sets the debug mode and calls what the command
\* asks for, or exits 1 on an unknown command.
MainDispatch ==
    /\ invocation.pc = "parseArgs"
    /\ invocation.i > Len(invocation.args)
    /\ LET known == invocation.local.command \in {<<>>, <<"run">>, <<"init">>}
       IN  /\ invocation' = [invocation EXCEPT
                                !.pc = IF known THEN "dispatched" ELSE "exited",
                                !.debugMode = invocation.local.debug,
                                !.runs = Dispatch(invocation.local)]
           /\ exit' = IF known THEN exit ELSE <<1>>
    /\ UNCHANGED <<orchestration, w, cfg, pc, project>>

NextCli == MainStart \/ ParseArgsLoop \/ MainDispatch

SpecCli == InitCli /\ [][NextCli]_vars

\* --------------------------------------------------------- specifications

NextValidLimit == LoopTest \/ Admit \/ BeginWait \/ Resume \/ WorkerSettles \/ Exit

Next == NextValidLimit \/ SkipWait

\* Every run, whatever the configured limit.
Spec == Init /\ [][Next]_vars

\* Runs with a valid concurrency limit (a positive integer).
InitValidLimit == InitWith(1..MaxLimit)

SpecValidLimit == InitValidLimit /\ [][NextValidLimit]_vars

\* The event loop runs every continuation and callback that is ready, and
\* every started worker settles in the end.
Fairness ==
    /\ WF_vars(LoopTest) /\ WF_vars(Admit) /\ WF_vars(BeginWait)
    /\ WF_vars(SkipWait) /\ WF_vars(Resume) /\ WF_vars(Exit)
    /\ WF_vars(WorkerSettles)

FairSpec == Spec /\ Fairness

\* Runs in which the agent process of one spec never closes, so that its
\* worker, once started, never settles.
InitHung == CallWith(DiscoveredLists, -1..MaxLimit, TRUE)

SpecHung == InitHung /\ [][Next]_vars /\ Fairness

\* Runs of two or more specs of which exactly one cannot be loaded.
InitLoadFailure ==
    /\ specs \in { l \in DiscoveredLists : Len(l) >= 2 }
    /\ maxWorkers \in 1..MaxLimit
    /\ unloadable \in { {p} : p \in Range(specs) }
    /\ project = NoCall
    /\ debugMode = FALSE
    /\ credential = TRUE
    /\ pc = "outer"
    /\ queue = specs
    /\ activeWorkers = {}
    /\ allResults = <<>>
    /\ progress = NewProgressTracker(Len(specs), specs)
    /\ snapshot = <<>>
    /\ race = NoRace
    /\ started = <<>>
    /\ settled = <<>>
    /\ aggregate = <<>>
    /\ exit = <<>>
    /\ report = <<>>
    /\ fs = FsOf(specs)
    /\ hung = {}
    /\ health = <<>>
    /\ w = NoCall
    /\ cfg = NoCall
    /\ invocation = NoCall

SpecLoadFailure == InitLoadFailure /\ [][NextValidLimit]_vars

\* The scheduler called with any list, the empty one included.
InitDirectCall == CallWith(DiscoveredLists \cup {<<>>}, -1..MaxLimit, FALSE)

SpecDirectCall == InitDirectCall /\ [][Next]_vars

\* `e2e-agent run`: main calls runOrchestrator on whatever is on disk.
RunOn(trees, limits) ==
    /\ fs \in trees
    /\ maxWorkers \in limits
    /\ credential \in BOOLEAN
    /\ hung = {}
    /\ health = <<>>
    /\ pc = "discover"
    /\ specs = <<>>
    /\ queue = <<>>
    /\ activeWorkers = {}
    /\ allResults = <<>>
    /\ progress = NewProgressTracker(0, <<>>)
    /\ snapshot = <<>>
    /\ race = NoRace
    /\ started = <<>>
    /\ settled = <<>>
    /\ aggregate = <<>>
    /\ exit = <<>>
    /\ report = <<>>
    /\ w = NoCall
    /\ cfg = NoCall
    /\ invocation = NoCall
    /\ unloadable = {}
    /\ project = NoCall
    /\ debugMode = FALSE

InitOrchestrator == RunOn(FileSystems, -1..MaxLimit)

NextOrchestrator == Discover \/ Next

SpecOrchestrator == InitOrchestrator /\ [][NextOrchestrator]_vars

\* main is started again, with `run`, after init has ended; loadConfig gives
\* the default specsDir and main calls runOrchestrator.
RunAfterInit ==
    /\ pc = "init"
    /\ project.pc \in {"done", "failed"}
    /\ pc' = "discover"
    /\ UNCHANGED <<besidesFiles, fs, project>>

\* `e2e-agent init` in a writable project without a config file, followed
\* by `e2e-agent run`.
InitThenRun ==
    InitIn({ p \in Projects : p.writable /\ p.config = "absent" }, MaxSpecs - 2)

NextInitThenRun ==
    \/ InitConfigFile \/ InitMkdir \/ InitTemplate
    \/ RunAfterInit \/ Discover \/ NextValidLimit

SpecInitThenRun == InitThenRun /\ [][NextInitThenRun]_vars

\* Discovery alone, on trees that also hold other files, symbolic links and
\* directories.
InitDiscovery == RunOn(Trees, {MaxLimit})

SpecDiscovery == InitDiscovery /\ [][Discover]_vars

\* ------------------------------------------------------------- vocabulary

\* runTestsWithParallelization has returned its aggregate.
Returned == aggregate # <<>>

\* The call is over: it returned, or it threw.
Finished == pc \in {"returned", "thrown", "exited"}

\* The specs whose worker promise rejected.
RejectedSpecs == { settled[i].spec : i \in { j \in 1..Len(settled) : settled[j].how = "rejected" } }

\* The specs runWorker was called with.
StartedSpecs == { started[i] : i \in 1..Len(started) }

InputSpecs == { specs[i] : i \in 1..Len(specs) }

\* ------------------------------------------------------------------ claims

\* C1 (completeness): the aggregate returned for K distinct spec paths has
\* exactly K entries in results, one per input spec, whatever the order and
\* timing in which the workers settle.
C1_Completeness ==
    Returned =>
        /\ Len(aggregate[1].results) = Len(specs)
        /\ \A s \in InputSpecs :
              \E i \in 1..Len(aggregate[1].results) :
                  aggregate[1].results[i].spec = Basename(s)

C3_Isolation ==
    (Finished /\ RejectedSpecs # {}) =>
        /\ StartedSpecs = InputSpecs
        /\ Len(allResults) = Len(specs)

\* C4 (invalid limit): with maxWorkers 0 or negative the run ends with an
\* error, and no worker is ever started.
C4_FailsFast ==
    maxWorkers <= 0 => (<>(pc = "thrown") /\ [](started = <<>>))

\* C5 (no propagation): a worker's rejection never leaves the scheduler as
\* an exception; the call returns and the rejection is among the results as
\* a failed outcome.
C5_RejectionStored ==
    /\ pc # "thrown"
    /\ Returned =>
          \A s \in RejectedSpecs :
              \E i \in 1..Len(aggregate[1].results) :
                  /\ aggregate[1].results[i].spec = Basename(s)
                  /\ aggregate[1].results[i].status = "failed"

\* C6 (termination): with maxWorkers >= 1 and every started worker settling,
\* runTestsWithParallelization eventually returns, and it returns only when
\* the pending queue and the in-flight table are both empty.
C6_Termination ==
    /\ maxWorkers >= 1 => <>Returned
    /\ [](Returned => (queue = <<>> /\ activeWorkers = {}))

\* C7 (conservation): in every returned aggregate
\* passed + failed = total = |results|, and total is the number of specs.
C7_Conservation ==
    Returned =>
        /\ aggregate[1].passed + aggregate[1].failed = aggregate[1].total
        /\ aggregate[1].total = Len(aggregate[1].results)
        /\ aggregate[1].total = Len(specs)

\* C8 (no duplicates): no identifier (the spec field of an outcome) appears
\* twice in the results of the returned aggregate.
C8_NoDuplicateOutcomes ==
    Returned =>
        \A i, j \in 1..Len(aggregate[1].results) :
            i # j => aggregate[1].results[i].spec # aggregate[1].results[j].spec

\* A task ended other than passed.
SomeTaskFailed == \E i \in 1..Len(settled) : settled[i].how # "passed"

\* Every discovered task passed.
EveryTaskPassed ==
    \A s \in InputSpecs :
        \E i \in 1..Len(settled) : settled[i].spec = s /\ settled[i].how = "passed"

\* C9 (exit status): `run` without a spec path exits non-zero if any task
\* ended failed, and with 0 only if every discovered task passed.
C9_ExitStatus ==
    exit # <<>> =>
        /\ SomeTaskFailed => exit[1] # 0
        /\ exit[1] = 0 => EveryTaskPassed

\* completed + running + queued = total in the counts update() computed.
SnapshotAddsUp ==
    snapshot # <<>> =>
        snapshot[1].completed + snapshot[1].running + snapshot[1].queued
            = snapshot[1].total

\* From one computed snapshot to the next, completed does not decrease.
CompletedGrows ==
    (snapshot # <<>> /\ snapshot' # <<>>) =>
        snapshot'[1].completed >= snapshot[1].completed

\* C10 (progress snapshots): across the snapshots computed by update() during
\* a run, completed never decreases and completed + running + queued = total.
C10_Snapshots == []SnapshotAddsUp /\ [][CompletedGrows]_vars

\* C11 (empty list): called with zero specs, the scheduler returns at its
\* first loop test the aggregate {total 0, passed 0, failed 0, results []}
\* and never starts a worker.
C11_EmptyList ==
    specs = <<>> =>
        /\ started = <<>>
        /\ pc # "outer" =>
              /\ Returned
              /\ aggregate[1].total = 0
              /\ aggregate[1].passed = 0
              /\ aggregate[1].failed = 0
              /\ aggregate[1].results = <<>>

\* C11's case: the call with zero specs has returned.
C11_Witness == specs = <<>> /\ pc = "returned"

\* C12 (no specs): when discovery finds no spec file, the specs directory
\* being unreadable included, runOrchestrator throws: the scheduler is not
\* entered, no worker is started and no report is written.
C12_NoSpecsThrows ==
    (pc # "discover" /\ FilesFound(fs) = {}) =>
        /\ pc \in {"nospecs", "exited"}
        /\ started = <<>>
        /\ report = <<>>
        /\ ~Returned

\* C12's case: spec files exist but the specs directory cannot be read, and
\* runOrchestrator has thrown.
C12_Witness == pc = "nospecs" /\ ~fs.root /\ fs.entries # {}

\* C13 (missing credential): when CURSOR_API_KEY is not set the run is
\* aborted before any spec is admitted; no worker is started and no outcome
\* is recorded for a spec.
C13_CredentialChecked ==
    ~credential => (started = <<>> /\ allResults = <<>>)

\* C14 (admission order): runWorker is called on the specs in the order of
\* the input list: at every moment the specs started so far are a prefix of
\* the input list, the i-th worker started being that of the i-th spec.
C14_AdmissionOrder ==
    /\ Len(started) <= Len(specs)
    /\ \A i \in 1..Len(started) : started[i] = specs[i]

\* C14's case: several specs were admitted one at a time, each after the
\* previous worker had settled.
C14_Witness ==
    /\ maxWorkers = 1
    /\ Len(specs) >= 2
    /\ Len(started) = Len(specs)

\* s can be obtained from t by deleting elements, the order of the rest kept.
RECURSIVE IsSubsequence(_, _)
IsSubsequence(s, t) ==
    IF s = <<>> THEN TRUE
    ELSE IF t = <<>> THEN FALSE
    ELSE IF Head(s) = Head(t) THEN IsSubsequence(Tail(s), Tail(t))
    ELSE IsSubsequence(s, Tail(t))

\* The outcomes in the order in which the workers' callbacks ran, as the
\* ProgressTracker collected them.
OutcomesInSettlingOrder == progress.completed

\* C15 (completion order): the results list holds its outcomes in the order
\* in which the workers settled, the first to settle first, whatever their
\* positions in the input list.
C15_CompletionOrder ==
    /\ IsSubsequence(allResults, OutcomesInSettlingOrder)
    /\ allResults # <<>> => allResults[1] = OutcomesInSettlingOrder[1]
    /\ Returned => aggregate[1].results = allResults

\* C15's case: a returned run whose second spec settled, and is listed,
\* before its first.
C15_Witness ==
    /\ Returned
    /\ Len(aggregate[1].results) = 2
    /\ Basename(specs[1]) # Basename(specs[2])
    /\ aggregate[1].results[1].spec = Basename(specs[2])
    /\ aggregate[1].results[2].spec = Basename(specs[1])

\* The coordinator has reached its first await.
HasWaited == pc = "await" \/ settled # <<>>

\* C16 (one pass): when maxWorkers is at least the number of specs, every
\* spec's worker is started in the first admission pass, before the
\* coordinator first waits, and the queue is empty from then on.
C16_OnePass ==
    (maxWorkers >= Len(specs) /\ HasWaited) =>
        /\ started = specs
        /\ queue = <<>>

\* C16's case: the coordinator is in its first wait with as many workers in
\* flight as there are specs, none settled yet.
C16_Witness ==
    /\ maxWorkers >= Len(specs)
    /\ Len(specs) >= 2
    /\ pc = "await"
    /\ settled = <<>>
    /\ Cardinality(activeWorkers) = Len(specs)

\* C17 (at most once): runWorker is called at most once for each spec of a
\* run, and a spec that was started, whatever its outcome, is never in the
\* queue again.
C17_AtMostOnce ==
    /\ \A i, j \in 1..Len(started) : i # j => started[i] # started[j]
    /\ \A i \in 1..Len(queue) : queue[i] \notin StartedSpecs

\* C17's case: the first spec ended failed, later specs were admitted after
\* it, and the run is over.
C17_Witness ==
    /\ Finished
    /\ Len(started) >= 2
    /\ settled # <<>>
    /\ settled[1].spec = specs[1]
    /\ settled[1].how # "passed"

\* C18 (the task executor always resolves): runWorker never rejects; a spec
\* that cannot be loaded, a missing CURSOR_API_KEY and a failed agent process
\* each end in a resolved TestResult with status failed.
C18_AlwaysResolves ==
    /\ w.pc # "rejected"
    /\ (w.pc = "resolved" /\ (w.loaded = <<>> \/ w.loaded[1].steps = Hostile \/ ~credential
                               \/ w.agent.state = "rejected")) =>
          w.result[1].status = "failed"

\* The worker that never settles has been started.
HungStarted == hung # {} /\ hung \subseteq StartedSpecs

\* Every spec other than the hung one has been started and has an outcome
\* in allResults.
OthersRecorded ==
    \A s \in InputSpecs \ hung :
        /\ s \in StartedSpecs
        /\ \E i \in 1..Len(allResults) : allResults[i].spec = Basename(s)

\* C19 (hung worker): with maxWorkers >= 2, a worker that never settles
\* holds only its own slot: every other spec is eventually admitted and its
\* outcome recorded, and the run never returns.
C19_HungWorker ==
    (maxWorkers >= 2 /\ <>HungStarted) => (<>OthersRecorded /\ []~Returned)

\* The environment defines field f: its variable is set to a non-empty
\* string (SAVE_LLM_LOGS: set at all).
EnvDefines(env, f) ==
    IF f = "saveLlmLogs" THEN "SAVE_LLM_LOGS" \in DOMAIN env
    ELSE EnvVarOf(f) # "" /\ EnvVarOf(f) \in DOMAIN env /\ env[EnvVarOf(f)] # ""

\* The value the environment gives field f.
EnvValue(env, f) ==
    CASE f \in {"maxWorkers", "maxRetries", "timeout"} -> ParseInt(env[EnvVarOf(f)])
      [] f = "saveLlmLogs" -> JsBoolean(env[EnvVarOf(f)] = "true")
      [] OTHER -> JsString(env[EnvVarOf(f)])

C22_Discovery ==
    pc # "discover" =>
        /\ \A p \in Paths :
              p \in Range(specs) <=>
                  (fs.root /\ p.dir \in fs.dirs /\ SpecFile(p) \in fs.entries)
        /\ \A i, j \in 1..Len(specs) : i < j => PathLess(specs[i], specs[j])

\* C22's case: discovery returned a spec file, having skipped a spec file
\* in an unreadable subdirectory and passed over a regular file of another
\* name in a readable one.
C22_Witness ==
    /\ pc # "discover"
    /\ specs # <<>>
    /\ \E e \in fs.entries : e.dir \notin fs.dirs /\ e.type = "file" /\ e.suffix
    /\ \E e \in fs.entries : e.dir \in fs.dirs /\ e.type = "file" /\ ~e.suffix

\* The content has the field: it is there and not empty.
Has(value) == value # Undefined /\ value # JsString("")

\* C23 (loadSpec validation): loadSpec throws whenever the content lacks
\* goal or lacks startUrl (or cannot be imported), and otherwise returns a
\* descriptor with the content's goal and startUrl, and with steps,
\* successCriteria and metadata as given, or empty when absent.
C23_LoadSpec ==
    w.pc # "load" =>
        IF w.file.imports /\ Has(w.file.goal) /\ Has(w.file.startUrl)
        THEN /\ w.pc = "call"
             /\ w.loaded[1].path = w.spec
             /\ w.loaded[1].goal = w.file.goal
             /\ w.loaded[1].startUrl = w.file.startUrl
             /\ w.loaded[1].steps =
                    (IF w.file.steps = Undefined THEN JsArray("") ELSE w.file.steps)
             /\ w.loaded[1].successCriteria =
                    (IF w.file.successCriteria = Undefined THEN JsArray("")
                     ELSE w.file.successCriteria)
             /\ w.loaded[1].metadata =
                    (IF w.file.metadata = Undefined THEN JsObject("")
                     ELSE w.file.metadata)
        ELSE /\ w.pc = "rejected"
             /\ w.loaded = <<>>
             /\ w.error[1].type = "Error"

\* C23's two cases: a content with a goal and no startUrl was refused; a
\* content with both and nothing else was loaded.
C23_Witness ==
    \/ /\ w.pc = "rejected"
       /\ w.file.imports
       /\ Has(w.file.goal)
       /\ w.file.startUrl = Undefined
    \/ /\ w.pc = "call"
       /\ w.file.steps = Undefined
       /\ w.file.successCriteria = Undefined
       /\ w.file.metadata = Undefined

\* The command line without its --debug flags.
WithoutDebug(args) == SelectSeq(args, LAMBDA a : a # "--debug")

\* `run`, then at most one spec path, and --debug at most once, anywhere.
IsRunLine(args) ==
    /\ Len(args) - Len(WithoutDebug(args)) <= 1
    /\ Len(WithoutDebug(args)) \in 1..2
    /\ WithoutDebug(args)[1] = "run"
    /\ Len(WithoutDebug(args)) = 2 => WithoutDebug(args)[2] \in SpecPathWords

\* C24 (CLI argument parsing): for `run`, one spec path and optionally
\* --debug in any position, parseArgs yields command 'run', that path, and
\* debug true exactly when --debug is there; for `run` without a path,
\* specPath is null and main calls the orchestrator.
C24_ParseArgs ==
    invocation.pc = "dispatched" /\ IsRunLine(invocation.args) =>
        /\ invocation.local.command = <<"run">>
        /\ invocation.local.debug = ("--debug" \in Range(invocation.args))
        /\ IF Len(WithoutDebug(invocation.args)) = 2
           THEN invocation.local.specPath = <<WithoutDebug(invocation.args)[2]>>
           ELSE /\ invocation.local.specPath = <<>>
                /\ invocation.runs = "runOrchestrator"

\* C24's case: --debug stood between `run` and the spec path.
C24_Witness ==
    /\ invocation.pc = "dispatched"
    /\ IsRunLine(invocation.args)
    /\ Len(invocation.args) = 3
    /\ invocation.args[2] = "--debug"
    /\ invocation.runs = "runWorker"

\* Where allResults holds an outcome under the identifier of `spec`.
OutcomesOf(spec) ==
    { i \in 1..Len(allResults) : allResults[i].spec = Basename(spec) }

\* C25 (rejection normalization): when a worker's promise rejects, exactly
\* one outcome is recorded for that spec: its identifier, status failed,
\* duration 0, and as error the rejection's message, or its string form
\* when it has no message.
C25_RejectionNormalized ==
    Finished =>
        \A s \in RejectedSpecs :
            /\ Cardinality(OutcomesOf(s)) = 1
            /\ \A i \in OutcomesOf(s) :
                   \E error \in WorkerRejections :
                       /\ ~MessageReadThrows(error)
                       /\ allResults[i] = ErrorResult(s, error)

\* The coordinator suspends at `await Promise.race(...)` in this step.
Suspends == pc # "await" /\ pc' = "await"

\* C26 (backfill): whenever the coordinator suspends to wait for a
\* completion, the pending queue is empty or exactly maxWorkers workers are
\* in flight; and capacity is only ever refilled from the head of the queue,
\* so what a completion frees is refilled from there before the next wait.
C26_Backfill ==
    [][ /\ Suspends =>
              \/ queue' = <<>>
              \/ Cardinality(activeWorkers') = maxWorkers
        /\ activeWorkers' \ activeWorkers # {} =>
              /\ queue # <<>>
              /\ activeWorkers' = activeWorkers \cup {Head(queue)}
              /\ queue' = Tail(queue)
              /\ pc = "inner" ]_vars

\* C26's case: a completion was observed, its slot was refilled, and the
\* coordinator waits again with specs still pending.
C26_Witness ==
    /\ pc = "await"
    /\ allResults # <<>>
    /\ Len(started) > maxWorkers
    /\ queue # <<>>
    /\ Cardinality(activeWorkers) = maxWorkers

\* C27 (snapshot accuracy): every snapshot computed by ProgressTracker.update
\* reports as running the number of workers in flight (the worker being
\* admitted counted) and as queued the length of the pending queue, also
\* for paths in different directories that share a base name.
C27_SnapshotAccurate ==
    [][ progress' # progress =>
            /\ snapshot'[1].running = Cardinality(activeWorkers')
            /\ snapshot'[1].queued = Len(queue') ]_vars

\* update() ran in this step and printed its line: the line differs from
\* the one printed before.
PrintsLine == progress'.lastProgressLine # progress.lastProgressLine

\* C28 (snapshot emission): a progress line is computed after every
\* admission and every completion, and a line equal to the one printed
\* last is not printed again.
C28_SnapshotEmission ==
    [][ /\ activeWorkers' # activeWorkers =>
              /\ progress' # progress
              /\ snapshot' = <<SnapshotOf(progress')>>
              /\ progress'.lastProgressLine = StatusLine(snapshot'[1])
        /\ PrintsLine =>
              progress'.lastProgressLine = StatusLine(SnapshotOf(progress')) ]_vars

\* How the worker of `spec` settled, when it resolved.
ResolvedAs(spec) ==
    { settled[i].how : i \in { j \in 1..Len(settled) :
                                   settled[j].spec = spec /\ settled[j].how # "rejected" } }

\* C29 (deferred load failure): when one spec of a run of several cannot be
\* loaded, the run still completes, the outcome of that spec is failed with
\* the load error's message, and the other specs have their own outcomes.
C29_LoadFailurePerTask ==
    Returned =>
        /\ \A s \in unloadable :
               \E i \in 1..Len(aggregate[1].results) :
                   aggregate[1].results[i] = ErrorResult(s, LoadError)
        /\ \A s \in InputSpecs \ unloadable :
               \A how \in ResolvedAs(s) :
                   \E i \in 1..Len(aggregate[1].results) :
                       /\ aggregate[1].results[i].spec = Basename(s)
                       /\ aggregate[1].results[i].status = how

\* C30 (partition invariant): each time the coordinator is at the head of
\* its loop, and when it returns, the pending queue, the in-flight table and
\* the results list together hold every input spec exactly once:
\* |queue| + |activeWorkers| + |allResults| = K.
C30_Partition ==
    pc \in {"outer", "returned"} =>
        Len(queue) + Cardinality(activeWorkers) + Len(allResults) = Len(specs)

\* C31 (bookkeepings agree): when runTestsWithParallelization returns, the
\* completions counted by the ProgressTracker, and the passed and failed
\* counts of its last progress line, equal total, passed and failed of the
\* returned aggregate.
C31_BookkeepingsAgree ==
    Returned =>
        /\ Len(progress.completed) = aggregate[1].total
        /\ snapshot # <<>> =>
              /\ snapshot[1].completed = aggregate[1].total
              /\ snapshot[1].passed = aggregate[1].passed
              /\ snapshot[1].failed = aggregate[1].failed
              /\ progress.lastProgressLine = StatusLine(snapshot[1])

\* C32 (single-spec exit status): `run <spec-path>` exits 0 exactly when the
\* worker resolved with status passed, and exits 1 when it resolved with
\* failed or rejected.
C32_SingleExitStatus ==
    pc = "exited" =>
        /\ exit \in {<<0>>, <<1>>}
        /\ exit = <<0>> <=> (w.pc = "resolved" /\ w.result[1].status = "passed")
        /\ w.pc \in {"resolved", "rejected"}

\* C32's cases: the run exited 1 after the worker resolved with failed.
C32_Witness ==
    /\ pc = "exited"
    /\ exit = <<1>>
    /\ w.pc = "resolved"
    /\ w.result[1].status = "failed"

\* The parts of `text` that are written as an object: from a { to a }.
ObjectTexts(text) ==
    { SubSeq(text, i, j) : i \in 1..Len(text), j \in 1..Len(text) } \cap
    { t \in Seq(Chars) : Len(t) >= 2 /\ t[1] = "{" /\ t[Len(t)] = "}" }

\* C33 (pass criterion): runWorker reports passed only when the agent's
\* output contains a JSON object whose success field is exactly true;
\* output with no JSON, with JSON that does not parse, or with a success
\* other than true gives failed, with the error 'Could not parse agent
\* response' when nothing could be parsed.
C33_PassCriterion ==
    w.pc = "resolved" =>
        LET text == w.agent.text
            objects == { t \in ObjectTexts(text) : JsonParse(t).valid }
        IN /\ w.result[1].status \in {"passed", "failed"}
           /\ w.result[1].status = "passed" =>
                 \E t \in objects : JsonParse(t).success = "true"
           /\ (\A t \in objects : JsonParse(t).success # "true") =>
                 w.result[1].status = "failed"
           /\ objects = {} =>
                 /\ w.result[1].status = "failed"
                 /\ w.result[1].error = "Could not parse agent response"

\* C33's cases: an output with text around an object whose success is true
\* was reported passed.
C33_Witness ==
    /\ w.pc = "resolved"
    /\ w.result[1].status = "passed"
    /\ Len(w.agent.text) > 3
    /\ w.agent.text[1] # "{"

\* The agent process closes in this step.
Closes == w.pc # "none" /\ w.proc = "running" /\ w'.proc = "closed"

\* C34 (agent call settles once): whatever the sequence of stdout and stderr
\* data, close and error events, callCursorAgent's promise settles exactly
\* once; a close that settles it resolves it when the exit code is 0 or
\* some non-blank stdout was received and rejects it otherwise; without
\* CURSOR_API_KEY it rejects and no process is spawned.
C34_SettlesOnce ==
    [][ /\ (w.pc # "none" /\ w.agent.state \in {"resolved", "rejected"}) =>
              w'.agent = w.agent
        /\ Closes =>
              /\ w'.agent.state \in {"resolved", "rejected"}
              /\ w.agent.state = "pending" =>
                    IF w'.code = <<0>> \/ Trim(w.stdout) # <<>>
                    THEN w'.agent = [state |-> "resolved", text |-> Trim(w.stdout),
                                     error |-> <<>>]
                    ELSE w'.agent.state = "rejected"
        /\ ~credential =>
              /\ w'.proc = "none"
              /\ w'.pc = "agent" => w'.agent.state = "rejected" ]_vars

\* C34's case: the process reported an error and then closed with code 0
\* after writing output; the promise is still rejected with the error.
C34_Witness ==
    /\ w.pc # "none"
    /\ w.proc = "closed"
    /\ w.errorEmitted
    /\ w.code = <<0>>
    /\ Trim(w.stdout) # <<>>
    /\ w.agent.state = "rejected"

\* The files init can touch.
ProjectFiles == <<project.config, project.specsDir, project.template, fs>>

\* C35 (init is non-destructive and idempotent): init never overwrites an
\* existing e2e.config.ts or an existing e2e/specs/.template.spec.ts, and a
\* second run of init leaves the files exactly as the first run left them.
C35_InitIdempotent ==
    [][ /\ project.config # "absent" => project'.config = project.config
        /\ project.template # "absent" => project'.template = project.template
        /\ project.run = 2 => ProjectFiles' = ProjectFiles ]_vars

\* C35's case: the second run has ended in a project where the first run
\* wrote the template beside a config file of the user's.
C35_Witness ==
    /\ project.pc = "done"
    /\ project.run = 2
    /\ project.config = "other content"
    /\ project.template = "written by init"

\* C36 (the template is a discovered task): after init, a following `run`
\* discovers e2e/specs/.template.spec.ts and schedules it as a test like
\* any other spec.
C36_TemplateDiscovered ==
    (project.pc = "done" /\ pc \notin {"init", "discover"}) =>
        /\ TemplatePath \in InputSpecs
        /\ pc # "nospecs"
        /\ TemplatePath \in StartedSpecs \/ TemplatePath \in Range(queue)
        /\ Returned => TemplatePath \in StartedSpecs

\* C36's case: init wrote the template into a project with specs of its
\* own, and the run that followed has started a worker on the template.
C36_Witness ==
    /\ project.pc = "done"
    /\ project.template = "written by init"
    /\ Len(specs) >= 2
    /\ TemplatePath \in StartedSpecs

\* The candidates that exist and load as an object.
LoadsAsObject(i) ==
    /\ cfg.contents[i] \notin {"missing", "broken"}
    /\ \/ cfg.contents[i] = "object"
       \/ ~EndsWithJson(ConfigFileNames[i]) /\ cfg.contents[i] = "null"

\* C37 (config file lookup): loadConfigFile tries e2e.config.ts,
\* e2e.config.js, .e2erc.json and .e2erc.js in that order and returns the
\* first that exists and loads as an object; a candidate that is missing or
\* fails to import or to parse is skipped, and null is returned when none
\* loads.
C37_ConfigFileLookup ==
    cfg.pc = "returned" =>
        LET loadable == { i \in 1..Len(ConfigFileNames) : LoadsAsObject(i) }
        IN IF loadable = {}
           THEN cfg.result = <<Null>>
           ELSE \E i \in loadable :
                   /\ \A k \in loadable : i <= k
                   /\ cfg.result[1].t = "object"
                   /\ cfg.result[1].v \in {ConfigFileNames[i],
                                            ConfigFileNames[i] \o " module"}

\* The result events among the lines of the agent's whole output, the last
\* line included whether or not a newline ends it.
ResultEvents(stdout) ==
    LET lines == Split(stdout)
    IN { i \in 1..Len(lines) : IsResultEvent(lines[i]) }

NonEmptyResults(stdout) ==
    { i \in ResultEvents(stdout) : ResultOf(Split(stdout)[i]) # <<>> }

LastOf(indices) == CHOOSE i \in indices : \A k \in indices : k <= i

\* What a call resolves with on the output `stdout` when the debug flag has
\* the value `spawned` from the spawn to the close.
TextUnderFlag(spawned, stdout) ==
    LET lines == Split(stdout)
    IN ResolvedText(spawned,
                    HandleLines(<<>>, SubSeq(lines, 1, Len(lines) - 1)),
                    stdout)

\* C38: the text callCursorAgent resolves with is determined by the output
\* of the agent process and the value the debug flag had when the process
\* was spawned; setDebugMode calls made while the process runs do not
\* change it.
C38_DebugFlagIsolation ==
    w.agent.state = "resolved" =>
        w.agent.text = TextUnderFlag(w.streaming, w.stdout)

\* C39: in debug mode, when the agent emitted a result event with a
\* non-empty result, callCursorAgent resolves with the result text of the
\* last such event, however the output was split into chunks and also when
\* that event is the last line and no newline ends it.
C39_DebugStreamResult ==
    (/\ w.streaming
     /\ w.agent.state = "resolved"
     /\ NonEmptyResults(w.stdout) # {}) =>
        w.agent.text = ResultOf(Split(w.stdout)[LastOf(NonEmptyResults(w.stdout))])

====
